---- MODULE Spec2Model ----
(***************************************************************************)
(* Model of src/main.py, the ski-weather backend: the resort catalog, the  *)
(* condition classifier, the mock forecast generator and the three HTTP    *)
(* handlers.                                                               *)
(*                                                                         *)
(* Number representation.  Python floats are modelled as fixed-point       *)
(* integers: a temperature is a count of 1/Deg degrees C, a precipitation  *)
(* a count of 1/Mm millimetres, a coordinate a count of 1/10000 degrees.   *)
(* Every literal of the source and every lapse-rate result                 *)
(* delta / 1000 * 6.5 is exact in these units.  round(x, 1) is exact       *)
(* except on a value that lies half way between two tenths: there Python   *)
(* rounds the binary double, whose last-bit error (not a rounding          *)
(* convention) decides the direction, input by input.  The model leaves    *)
(* the direction open: tieUp fixes it, for a whole behaviour, separately   *)
(* for the ties above an even and above an odd number of tenths, which     *)
(* covers half-up, half-down, half-even and half-odd but not every mix a   *)
(* double can produce.  No literal of the source meets such a tie.         *)
(* A datetime is a count of hours; isoformat() is the pair                 *)
(* <<day, hour of day>>, whose lexicographic order is chronological.       *)
(* Icons are named in ASCII instead of the emoji of the source.            *)
(***************************************************************************)
EXTENDS Integers, Sequences, FiniteSets

VARIABLES
    RESORTS,          \* the module-level catalog, a dict in insertion order
    precip,           \* generate_mock_weather_data's precipitation list
    base_temps_bot,   \* generate_mock_weather_data's bottom temperatures
    tieUp,            \* direction round() takes on an exact half tenth, by parity
    request,          \* the request being answered
    response,         \* what the handler returned or raised
    weather_data,     \* get_weather's local: the generator's flat list
    calls,            \* functions the last handler invoked
    remembered,       \* an earlier weather request with its response
    classified        \* one direct application of the classifier

vars == <<RESORTS, precip, base_temps_bot, tieUp, request, response,
          weather_data, calls, remembered, classified>>

\* ---------------------------------------------------------------- units

Deg == 10000
Mm == 100

\* ---------------------------------------------------------------- bounds

MaxLen == 13
MaxAnchor == 2

\* ---------------------------------------------------------------- catalog

SunshineVillage ==
    [id |-> "sunshine_village", name |-> "Sunshine Village",
     location |-> "Banff, Canada", lat |-> 511164, lon |-> -1157631,
     altitudes |-> [top |-> 2730, mid |-> 2200, bot |-> 1660]]

RESORTS_literal == <<SunshineVillage>>

precip_literal ==
    <<0, 250, 500, 150, 0, 0, 300, 600, 200, 0, 0, 0>>

base_temps_bot_literal ==
    <<-10000, 0, 15000, 25000, 10000, -20000, -30000, -10000, 5000, 10000,
      -10000, -20000>>

periods == 12

\* mutant: RESORTS.get(resort_id, <the first resort>)
RESORTS_get_default(resort_id) ==
    LET hits == {k \in DOMAIN RESORTS : RESORTS[k].id = resort_id}
    IN  IF hits # {} THEN <<RESORTS[CHOOSE k \in hits : TRUE]>>
        ELSE IF RESORTS = <<>> THEN <<>> ELSE <<RESORTS[1]>>

\* RESORTS.get(resort_id): <<>> stands for None
RESORTS_get(resort_id) ==
    LET hits == {k \in DOMAIN RESORTS : RESORTS[k].id = resort_id}
    IN  IF hits = {} THEN <<>> ELSE <<RESORTS[CHOOSE k \in hits : TRUE]>>

\* ---------------------------------------------------------------- classifier

\* mutant: the first band tests temp_c < -12
analyze_snow_condition_open(temp_c, precip_mm) ==
    IF precip_mm * 10 < Mm THEN <<"Cloudy/Clear", "cloud">>
    ELSE IF temp_c < -12 * Deg THEN <<"Champagne Powder", "snowflake gem">>
    ELSE IF -12 * Deg < temp_c /\ temp_c <= -3 * Deg THEN <<"Powder", "snowflake">>
    ELSE IF -3 * Deg < temp_c /\ temp_c * 2 <= Deg THEN <<"Snow", "snow cloud">>
    ELSE IF Deg < temp_c * 2 /\ temp_c <= 2 * Deg
         THEN <<"Wet Snow/Sleet", "droplet snowflake">>
    ELSE <<"Rain", "rain cloud">>

analyze_snow_condition(temp_c, precip_mm) ==
    IF precip_mm * 10 < Mm THEN <<"Cloudy/Clear", "cloud">>
    ELSE IF temp_c <= -12 * Deg THEN <<"Champagne Powder", "snowflake gem">>
    ELSE IF -12 * Deg < temp_c /\ temp_c <= -3 * Deg THEN <<"Powder", "snowflake">>
    ELSE IF -3 * Deg < temp_c /\ temp_c * 2 <= Deg THEN <<"Snow", "snow cloud">>
    ELSE IF Deg < temp_c * 2 /\ temp_c <= 2 * Deg
         THEN <<"Wet Snow/Sleet", "droplet snowflake">>
    ELSE <<"Rain", "rain cloud">>

\* ---------------------------------------------------------------- generator

\* round(x, 1)
Round1(x) ==
    LET tenth == Deg \div 10
        q == x \div tenth
        r == x % tenth
    IN  IF r * 2 < tenth THEN q * tenth
        ELSE IF r * 2 > tenth THEN (q + 1) * tenth
        ELSE IF tieUp[q % 2] THEN (q + 1) * tenth ELSE q * tenth

\* delta / 1000 * 6.5
Lapse(delta) == (delta * (Deg \div 1000) * 65) \div 10

t_bot_at(i) == IF i < Len(base_temps_bot) THEN base_temps_bot[i + 1] ELSE 0

\* mutant: the altitude delta taken the wrong way round
t_mid_reversed(resort, t_bot) ==
    t_bot - Lapse(resort.altitudes.bot - resort.altitudes.mid)

t_mid_of(resort, t_bot) ==
    t_bot - Lapse(resort.altitudes.mid - resort.altitudes.bot)

\* mutant: the lapse added instead of subtracted
t_top_warm(resort, t_bot) ==
    t_bot + Lapse(resort.altitudes.top - resort.altitudes.bot)

\* mutant: a fixed 3.25 degrees per level instead of the altitude delta
t_top_fixed(resort, t_bot) == t_bot - 2 * 32500

t_top_of(resort, t_bot) ==
    t_bot - Lapse(resort.altitudes.top - resort.altitudes.bot)

p_val_at(i) == IF i < Len(precip) THEN precip[i + 1] ELSE 0

\* mutant: the time of day without the date
isoformat_time_only(ts) == <<0, ts % 24>>

\* timestamp.isoformat()
isoformat(ts) == <<ts \div 24, ts % 24>>

\* mutant: the condition taken from the temperature before rounding
Entry_unrounded(timestamp, level, alt, t, p_val) ==
    LET temp == Round1(t)
        ci == analyze_snow_condition(t, p_val)
    IN  [timestamp |-> isoformat(timestamp), level |-> level, altitude |-> alt,
         temperature |-> temp, precipitation |-> p_val,
         condition |-> ci[1], icon |-> ci[2]]

\* one pass of the inner loop: the tuple (level, alt, round(t, 1)) and the
\* record appended for it
Entry(timestamp, level, alt, t, p_val) ==
    LET temp == Round1(t)
        ci == analyze_snow_condition(temp, p_val)
    IN  [timestamp |-> isoformat(timestamp), level |-> level, altitude |-> alt,
         temperature |-> temp, precipitation |-> p_val,
         condition |-> ci[1], icon |-> ci[2]]

\* one pass of the outer loop, for period i
Period(resort, base_time, i) ==
    LET timestamp == base_time + i * 3
        t_bot == t_bot_at(i)
        t_mid == t_mid_of(resort, t_bot)
        t_top == t_top_of(resort, t_bot)
        p_val == p_val_at(i)
    IN  <<Entry(timestamp, "Top", resort.altitudes.top, t_top, p_val),
          Entry(timestamp, "Mid", resort.altitudes.mid, t_mid, p_val),
          Entry(timestamp, "Bot", resort.altitudes.bot, t_bot, p_val)>>

\* mutant: one pass per bottom temperature instead of per period
PeriodsFrom_series(resort, base_time) ==
    LET by_period == [i \in 0..(Len(base_temps_bot) - 1) |->
                         Period(resort, base_time, i)]
    IN  [k \in 1..(3 * Len(base_temps_bot)) |->
            by_period[(k - 1) \div 3][((k - 1) % 3) + 1]]

\* the outer loop: the three records of period 0, then of period 1, ...
PeriodsFrom(resort, base_time) ==
    LET by_period == [i \in 0..(periods - 1) |-> Period(resort, base_time, i)]
    IN  [k \in 1..(3 * periods) |-> by_period[(k - 1) \div 3][((k - 1) % 3) + 1]]

\* mutant: nothing generated from empty lists
generate_nothing_from_empty(resort_id, base_time) ==
    LET resort == RESORTS_get(resort_id)
    IN  IF resort = <<>> \/ (base_temps_bot = <<>> /\ precip = <<>>) THEN <<>>
        ELSE PeriodsFrom(resort[1], base_time)

generate_mock_weather_data(resort_id, base_time) ==
    LET resort == RESORTS_get(resort_id)
    IN  IF resort = <<>> THEN <<>> ELSE PeriodsFrom(resort[1], base_time)

\* ---------------------------------------------------------------- handlers

\* entry.copy() with its timestamp deleted
layer_entry(entry) ==
    [level |-> entry.level, altitude |-> entry.altitude,
     temperature |-> entry.temperature, precipitation |-> entry.precipitation,
     condition |-> entry.condition, icon |-> entry.icon]

\* get_weather's "Group by timestamp" loop and the list built from its dict.
\* A dict keeps its keys in order of first insertion and the loop appends to
\* a key's list in order of arrival: one item per distinct timestamp, in the
\* order of its first entry, holding that timestamp's entries in order.
group_by_timestamp(data) ==
    LET numbered == [k \in DOMAIN data |-> [k |-> k, ts |-> data[k].timestamp]]
        opens(x) == \A j \in 1..(x.k - 1) : data[j].timestamp # x.ts
        keys == SelectSeq(numbered, opens)
        at(ts) == SelectSeq(data, LAMBDA entry : entry.timestamp = ts)
    IN  [n \in DOMAIN keys |->
            LET layers == at(keys[n].ts)
            IN  [timestamp |-> keys[n].ts,
                 layers |-> [m \in DOMAIN layers |-> layer_entry(layers[m])]]]

NoCalls == [generate |-> 0, classify |-> 0]

NotFound == [status |-> 404, detail |-> "Resort not found", body |-> <<>>]

Ok(body) == [status |-> 200, detail |-> "", body |-> body]

read_root ==
    Ok(<<[message |-> "Ski Weather Backend API", status |-> "running",
          docs_url |-> "http://127.0.0.1:8000/docs"]>>)

get_resorts ==
    Ok([k \in DOMAIN RESORTS |->
          [id |-> RESORTS[k].id, name |-> RESORTS[k].name,
           location |-> RESORTS[k].location]])

\* mutant: the last response served again to the next request for its resort
get_weather_cached(resort_id, base_time) ==
    LET resort == RESORTS_get(resort_id)
    IN  IF resort = <<>>
        THEN [response |-> NotFound, weather_data |-> <<>>, calls |-> NoCalls]
        ELSE IF request.endpoint = "/weather" /\ request.resort_id = resort_id
        THEN [response |-> response, weather_data |-> weather_data,
              calls |-> NoCalls]
        ELSE LET data == generate_mock_weather_data(resort_id, base_time)
             IN  [response |->
                    Ok(<<[resort_name |-> resort[1].name,
                          location |-> resort[1].location,
                          coordinates |-> [lat |-> resort[1].lat, lon |-> resort[1].lon],
                          forecasts |-> group_by_timestamp(data)]>>),
                  weather_data |-> data,
                  calls |-> [generate |-> 1, classify |-> Len(data)]]

get_weather(resort_id, base_time) ==
    LET resort == RESORTS_get(resort_id)
    IN  IF resort = <<>>
        THEN [response |-> NotFound, weather_data |-> <<>>, calls |-> NoCalls]
        ELSE LET data == generate_mock_weather_data(resort_id, base_time)
             IN  [response |->
                    Ok(<<[resort_name |-> resort[1].name,
                          location |-> resort[1].location,
                          coordinates |-> [lat |-> resort[1].lat, lon |-> resort[1].lon],
                          forecasts |-> group_by_timestamp(data)]>>),
                  weather_data |-> data,
                  calls |-> [generate |-> 1, classify |-> Len(data)]]

\* ---------------------------------------------------------------- requests

ResortIds == {"sunshine_village", "aspen"}
Anchors == 0..MaxAnchor

NoRequest == [endpoint |-> "none", resort_id |-> "", base_time |-> 0]
NoResponse == [status |-> 0, detail |-> "", body |-> <<>>]
NotClassified ==
    [temp_c |-> 0, precip_mm |-> 0, done |-> FALSE, condition |-> "", icon |-> ""]

ReadRoot ==
    /\ request' = [endpoint |-> "/", resort_id |-> "", base_time |-> 0]
    /\ response' = read_root
    /\ weather_data' = <<>>
    /\ calls' = NoCalls
    /\ UNCHANGED <<RESORTS, precip, base_temps_bot, tieUp, remembered, classified>>

GetResorts ==
    /\ request' = [endpoint |-> "/resorts", resort_id |-> "", base_time |-> 0]
    /\ response' = get_resorts
    /\ weather_data' = <<>>
    /\ calls' = NoCalls
    /\ UNCHANGED <<RESORTS, precip, base_temps_bot, tieUp, remembered, classified>>

\* The observer's memory: when this request arrives it may take the weather
\* request answered just before, with its response, in place of the one it
\* holds (take), so that what it holds was always answered earlier.
Remember(take) ==
    IF take /\ request.endpoint = "/weather"
    THEN <<[resort_id |-> request.resort_id, base_time |-> request.base_time,
            response |-> response]>>
    ELSE remembered

GetWeather(resort_id, base_time, take) ==
    LET r == get_weather(resort_id, base_time)
    IN  /\ request' = [endpoint |-> "/weather", resort_id |-> resort_id,
                       base_time |-> base_time]
        /\ response' = r.response
        /\ weather_data' = r.weather_data
        /\ calls' = r.calls
        /\ remembered' = Remember(take)
        /\ UNCHANGED <<RESORTS, precip, base_temps_bot, tieUp, classified>>

Init ==
    /\ RESORTS = RESORTS_literal
    /\ precip = precip_literal
    /\ base_temps_bot = base_temps_bot_literal
    /\ tieUp \in [{0, 1} -> BOOLEAN]
    /\ request = NoRequest
    /\ response = NoResponse
    /\ weather_data = <<>>
    /\ calls = NoCalls
    /\ remembered = <<>>
    /\ classified = NotClassified

Next ==
    \/ ReadRoot
    \/ GetResorts
    \/ \E resort_id \in ResortIds, base_time \in Anchors, take \in BOOLEAN :
          GetWeather(resort_id, base_time, take)

Spec == Init /\ [][Next]_vars

\* ------------------------------------------- the program over other data

\* Altitude profiles with top > mid > bot, as the data model requires: the
\* catalog's own, one whose layers are a metre apart, one whose mid layer
\* cools by an exact half tenth (100 m: 0.65), one reaching below -12.
Resort(id, name, top, mid, bot) ==
    [id |-> id, name |-> name, location |-> "", lat |-> 0, lon |-> 0,
     altitudes |-> [top |-> top, mid |-> mid, bot |-> bot]]

Catalogs ==
    { <<>>,
      RESORTS_literal,
      <<SunshineVillage, Resort("aspen", "High", 3100, 1500, 500)>>,
      <<Resort("aspen", "Knoll", 1001, 1000, 999)>>,
      <<Resort("aspen", "Ridge", 1400, 1100, 1000)>> }

\* Base series: the source's own and one whose values sit on and beside the
\* classifier's thresholds, cut or repeated to a length.
BaseSeries ==
    { [temps |-> base_temps_bot_literal, precip |-> precip_literal],
      [temps |-> <<40000, 5400, -50000, 400, 75000, 90000, 500, 20000,
                   120000, -120000, 30000, -2000>>,
       precip |-> <<250, 10, 250, 0, 500, 11, 250, 9, 5, 600, 100, 250>>] }

Lengths == {0, 1, periods - 1, periods, MaxLen}

OfLength(s, n) == [i \in 1..n |-> s[((i - 1) % Len(s)) + 1]]

InitGen ==
    /\ RESORTS \in Catalogs
    /\ \E series \in BaseSeries, n \in Lengths, m \in Lengths :
          /\ base_temps_bot = OfLength(series.temps, n)
          /\ precip = OfLength(series.precip, m)
    /\ tieUp \in [{0, 1} -> BOOLEAN]
    /\ request = NoRequest
    /\ response = NoResponse
    /\ weather_data = <<>>
    /\ calls = NoCalls
    /\ remembered = <<>>
    /\ classified = NotClassified

\* the same handlers; the request time is the first or the last anchor and
\* the observer is idle
NextGen ==
    \/ ReadRoot
    \/ GetResorts
    \/ \E resort_id \in ResortIds, base_time \in {0, MaxAnchor} :
          GetWeather(resort_id, base_time, FALSE)

SpecGen == InitGen /\ [][NextGen]_vars

\* ------------------------------------------- the classifier on its own

Thresholds == {-12 * Deg, -3 * Deg, Deg \div 2, 2 * Deg}

Temperatures ==
    {-50 * Deg, -20 * Deg, 0, 50 * Deg}
    \cup {th + d : th \in Thresholds,
                   d \in {-Deg, -100, -10, -1, 0, 1, 10, 100, Deg}}

Precipitations == {0, 5, 9, 10, 11, 250, 500, 10000}

InitClassify ==
    /\ RESORTS = RESORTS_literal
    /\ precip = precip_literal
    /\ base_temps_bot = base_temps_bot_literal
    /\ tieUp \in [{0, 1} -> BOOLEAN]
    /\ request = NoRequest
    /\ response = NoResponse
    /\ weather_data = <<>>
    /\ calls = NoCalls
    /\ remembered = <<>>
    /\ \E t \in Temperatures, p \in Precipitations :
          classified = [NotClassified EXCEPT !.temp_c = t, !.precip_mm = p]

Classify ==
    /\ ~classified.done
    /\ LET ci == analyze_snow_condition(classified.temp_c, classified.precip_mm)
       IN  classified' = [classified EXCEPT !.done = TRUE,
                                            !.condition = ci[1], !.icon = ci[2]]
    /\ UNCHANGED <<RESORTS, precip, base_temps_bot, tieUp, request, response,
                   weather_data, calls, remembered>>

NextClassify == Classify

SpecClassify == InitClassify /\ [][NextClassify]_vars

\* ================================================================ claims

Known(resort_id) == \E k \in DOMAIN RESORTS : RESORTS[k].id = resort_id

WeatherAsked == request.endpoint = "/weather"

WeatherOk == WeatherAsked /\ response.status = 200

Forecasts == response.body[1].forecasts

Asked == CHOOSE k \in DOMAIN RESORTS : RESORTS[k].id = request.resort_id

Altitudes == RESORTS[Asked].altitudes

Ordered(alt) == alt.top > alt.mid /\ alt.mid > alt.bot

Levels(point) == [m \in DOMAIN point.layers |-> point.layers[m].level]

Wet(p) == p * 10 >= Mm

\* hours since the epoch of an isoformat() value
Hours(iso) == iso[1] * 24 + iso[2]

Abs(x) == IF x < 0 THEN -x ELSE x

\* ---------------------------------------------------------------- C1

IconOf(condition) ==
    CASE condition = "Cloudy/Clear" -> "cloud"
      [] condition = "Champagne Powder" -> "snowflake gem"
      [] condition = "Powder" -> "snowflake"
      [] condition = "Snow" -> "snow cloud"
      [] condition = "Wet Snow/Sleet" -> "droplet snowflake"
      [] condition = "Rain" -> "rain cloud"
      [] OTHER -> "?"

\* C1: the classifier returns the label of the first matching rule (dry below
\* 0.1 mm whatever the temperature, then the bands split at -12, -3, 0.5 and
\* 2.0 with each boundary in the colder band), always one of the six labels,
\* each label with its one icon.
C1_FirstMatchingRule ==
    classified.done =>
        LET t == classified.temp_c
            p == classified.precip_mm
            c == classified.condition
        IN  /\ c \in {"Cloudy/Clear", "Champagne Powder", "Powder", "Snow",
                      "Wet Snow/Sleet", "Rain"}
            /\ classified.icon = IconOf(c)
            /\ (c = "Cloudy/Clear") <=> ~Wet(p)
            /\ Wet(p) =>
                  /\ (c = "Champagne Powder") <=> (10 * t <= -120 * Deg)
                  /\ (c = "Powder") <=> (-120 * Deg < 10 * t /\ 10 * t <= -30 * Deg)
                  /\ (c = "Snow") <=> (-30 * Deg < 10 * t /\ 10 * t <= 5 * Deg)
                  /\ (c = "Wet Snow/Sleet") <=> (5 * Deg < 10 * t /\ 10 * t <= 20 * Deg)
                  /\ (c = "Rain") <=> (10 * t > 20 * Deg)

C1_Witness ==
    /\ classified.done
    /\ classified.temp_c = -12 * Deg
    /\ classified.precip_mm = 500
    /\ classified.condition = "Champagne Powder"

\* ---------------------------------------------------------------- C2

\* C2: with top > mid > bot, every forecast point reports
\* Top.temperature <= Mid.temperature <= Bot.temperature.
C2_ColderWithAltitude ==
    (WeatherOk /\ Ordered(Altitudes)) =>
        \A n \in DOMAIN Forecasts :
            \A a, b \in DOMAIN Forecasts[n].layers :
                LET hi == Forecasts[n].layers[a]
                    lo == Forecasts[n].layers[b]
                IN  (hi.altitude > lo.altitude) => (hi.temperature <= lo.temperature)

C2_Witness ==
    /\ WeatherOk
    /\ Ordered(Altitudes)
    /\ \E n \in DOMAIN Forecasts :
          /\ Levels(Forecasts[n]) = <<"Top", "Mid", "Bot">>
          /\ Forecasts[n].layers[1].temperature = Forecasts[n].layers[3].temperature
    /\ \E n \in DOMAIN Forecasts :
          Forecasts[n].layers[1].temperature < Forecasts[n].layers[3].temperature

\* ---------------------------------------------------------------- C3

C5_NotFoundOnlyForUnknown ==
    WeatherAsked =>
        IF Known(request.resort_id)
        THEN response.status = 200 /\ calls.generate = 1
        ELSE /\ response.status = 404
             /\ response.detail = "Resort not found"
             /\ calls.generate = 0
             /\ calls.classify = 0
             /\ weather_data = <<>>

C5_Witness ==
    /\ WeatherAsked
    /\ ~Known(request.resort_id)
    /\ response.status = 404
    /\ calls = [generate |-> 0, classify |-> 0]

\* ---------------------------------------------------------------- C6

\* t_bot - delta / 1000 * 6.5, a thousand times over
Exact1000(t_bot, delta) == t_bot * 1000 - delta * 65 * (Deg \div 10)

\* x is t_bot - delta / 1000 * 6.5 rounded to one decimal: a whole number of
\* tenths, no further than half a tenth from it
IsRounded(x, t_bot, delta) ==
    /\ x % (Deg \div 10) = 0
    /\ 2 * Abs(x * 1000 - Exact1000(t_bot, delta)) <= (Deg \div 10) * 1000

\* C6: Mid and Top report t_bot - (layer altitude - bot altitude) / 1000 *
\* 6.5 rounded to one decimal, for the resort's own altitudes; Sunshine
\* Village with t_bot = 0.0 and 2.5 mm reports Top -7.0 Powder, Mid -3.5
\* Powder, Bot 0.0 Snow.
C6_LapseOfAltitudeDelta ==
    WeatherOk =>
        \A n \in DOMAIN Forecasts :
            LET t_bot == IF n <= Len(base_temps_bot) THEN base_temps_bot[n] ELSE 0
                p == IF n <= Len(precip) THEN precip[n] ELSE 0
                alt == Altitudes
                L == Forecasts[n].layers
            IN  /\ Len(L) = 3
                /\ IsRounded(L[1].temperature, t_bot, alt.top - alt.bot)
                /\ IsRounded(L[2].temperature, t_bot, alt.mid - alt.bot)
                /\ IsRounded(L[3].temperature, t_bot, 0)
                /\ (alt = [top |-> 2730, mid |-> 2200, bot |-> 1660]
                      /\ t_bot = 0 /\ p = 250) =>
                      /\ L[1].temperature = -7 * Deg /\ L[1].condition = "Powder"
                      /\ 2 * L[2].temperature = -7 * Deg /\ L[2].condition = "Powder"
                      /\ L[3].temperature = 0 /\ L[3].condition = "Snow"

C6_Witness ==
    /\ WeatherOk
    /\ Altitudes = [top |-> 2730, mid |-> 2200, bot |-> 1660]
    /\ Len(base_temps_bot) >= 2 /\ base_temps_bot[2] = 0
    /\ Len(precip) >= 2 /\ precip[2] = 250
    /\ Forecasts[2].layers[1].temperature = -7 * Deg
    /\ Forecasts[2].layers[2].temperature = -35000

\* ---------------------------------------------------------------- C7

\* C7: the i-th forecast point (from 0) carries anchor + 3 i hours, so the
\* points are in period order, 3 hours apart and pairwise distinct, and the
\* grouping neither reorders nor merges them.
C7_ThreeHoursApart ==
    WeatherOk =>
        /\ 3 * Len(Forecasts) = Len(weather_data)
        /\ \A n \in DOMAIN Forecasts :
              /\ Hours(Forecasts[n].timestamp) = request.base_time + 3 * (n - 1)
              /\ Forecasts[n].timestamp[2] \in 0..23
        /\ \A n, m \in DOMAIN Forecasts :
              (n # m) => (Forecasts[n].timestamp # Forecasts[m].timestamp)

C7_Witness ==
    /\ WeatherOk
    /\ request.base_time = MaxAnchor
    /\ Len(Forecasts) = periods
    /\ Forecasts[1].timestamp = <<0, MaxAnchor>>
    /\ Forecasts[periods].timestamp[1] = 1

\* ---------------------------------------------------------------- C8

\* C8: no request changes the catalog, and a weather request is answered as
\* any earlier request with the same identifier and anchor was, whatever was
\* served in between.
C8_NoCrossRequestState ==
    /\ RESORTS = RESORTS_literal
    /\ (WeatherAsked /\ remembered # <<>>) =>
          ((remembered[1].resort_id = request.resort_id
              /\ remembered[1].base_time = request.base_time)
           => (response = remembered[1].response))

C8_Witness ==
    /\ WeatherOk
    /\ remembered # <<>>
    /\ remembered[1].resort_id = request.resort_id
    /\ remembered[1].base_time = request.base_time
    /\ remembered[1].response = response
    /\ RESORTS = RESORTS_literal

\* ---------------------------------------------------------------- C9

\* C9: every layer's condition and icon are the classifier's for the
\* temperature the layer reports (the rounded one) and its precipitation,
\* and the three layers of a point report one precipitation.
C9_ClassifiedAsReported ==
    WeatherOk =>
        \A n \in DOMAIN Forecasts :
            \A a, b \in DOMAIN Forecasts[n].layers :
                LET la == Forecasts[n].layers[a]
                    lb == Forecasts[n].layers[b]
                IN  /\ <<la.condition, la.icon>> =
                          analyze_snow_condition(la.temperature, la.precipitation)
                    /\ la.precipitation = lb.precipitation

\* a Top layer reported at -3.0 Powder whose unrounded temperature is above -3
C9_Witness ==
    /\ WeatherOk
    /\ \E n \in DOMAIN Forecasts :
          /\ n <= Len(base_temps_bot)
          /\ Forecasts[n].layers[1].temperature = -3 * Deg
          /\ Forecasts[n].layers[1].condition = "Powder"
          /\ base_temps_bot[n] * 1000
               - (Altitudes.top - Altitudes.bot) * 65 * (Deg \div 10)
             > -3 * Deg * 1000

\* ---------------------------------------------------------------- C10

Rank(condition) ==
    CASE condition = "Champagne Powder" -> 1
      [] condition = "Powder" -> 2
      [] condition = "Snow" -> 3
      [] condition = "Wet Snow/Sleet" -> 4
      [] condition = "Rain" -> 5
      [] OTHER -> 0

\* C10: in a point with at least 0.1 mm a higher layer never shows a warmer
\* condition than a lower one; in a point with less, all layers are
\* Cloudy/Clear.
C10_ConditionsFollowAltitude ==
    (WeatherOk /\ Ordered(Altitudes)) =>
        \A n \in DOMAIN Forecasts :
            \A a, b \in DOMAIN Forecasts[n].layers :
                LET hi == Forecasts[n].layers[a]
                    lo == Forecasts[n].layers[b]
                IN  IF Wet(hi.precipitation)
                    THEN /\ Rank(hi.condition) \in 1..5
                         /\ (hi.altitude > lo.altitude) =>
                               (Rank(hi.condition) <= Rank(lo.condition))
                    ELSE hi.condition = "Cloudy/Clear"

C10_Witness ==
    /\ WeatherOk
    /\ \E n \in DOMAIN Forecasts :
          /\ Wet(Forecasts[n].layers[1].precipitation)
          /\ Forecasts[n].layers[1].condition = "Champagne Powder"
          /\ Forecasts[n].layers[2].condition = "Powder"
          /\ Forecasts[n].layers[3].condition = "Snow"
    /\ \E n \in DOMAIN Forecasts :
          /\ ~Wet(Forecasts[n].layers[1].precipitation)
          /\ Forecasts[n].layers[1].condition = "Cloudy/Clear"

====
